---- MODULE Spec2Model ----
(***************************************************************************)
(* StudyAgent: the orchestrator's run/cleanup lifecycle (study_agent/app.py *)
(* and the single-file entry point main.py), the configuration validation   *)
(* and model-client factory (config.py, llm_factory.py), and the            *)
(* solve_question tool with its parser and truncation (tools/solver.py).    *)
(*                                                                         *)
(* Strings are sequences of code points; a code point is written as a       *)
(* one-element TLA+ string ("A", " ", "\n") or, outside ASCII, by its name   *)
(* ("u63A8").  len(), slicing, "in" and split() work on these sequences.     *)
(***************************************************************************)
EXTENDS Integers, Sequences, FiniteSets, TLC

VARIABLES
    \* ---- orchestrator run (app.py StudyAgentApp.run / main.py main) ----
    entry,            \* which entry point runs: "app" (app.py) or "main" (main.py)
    b_provider,       \* config.browser_llm.provider (main.py: MODEL_PROVIDER)
    s_provider,       \* config.solver_llm.provider  (main.py: MODEL_PROVIDER)
    env_keys,         \* providers whose *_API_KEY environment variable is set
    pc,               \* position inside run
    llms,             \* model clients constructed so far, in order (roles)
    tools,            \* names of the actions registered on Tools()
    browser_session,  \* self._browser_session: "None" or "session"
    created,          \* number of BrowserSession objects created
    kills,            \* number of kill() calls on the session
    agent,            \* "None" or "Agent"
    exc,              \* exception in flight inside run: [type, msg]
    thrown,           \* the exception first raised inside the try block
    diag,             \* what the error handler printed
    exit,             \* how run ended: "none", "return", "SystemExit", or the raised type
    \* ---- one solve_question invocation (tools/solver.py, main.py) ----
    impl,             \* "solver" (tools/solver.py) or "main" (main.py)
    tpc,              \* position inside solve_question
    params,           \* the SolveQuestionParams of the call (None before it)
    screenshot_b64,   \* None, or the base64 text of the screenshot
    shots,            \* number of take_screenshot calls
    shot_failed,      \* a take_screenshot call raised
    messages,         \* the message list handed to solver_llm.ainvoke
    invokes,          \* number of solver_llm.ainvoke calls
    completion,       \* response.completion (None before the call returns)
    result,           \* the ActionResult returned (None if none)
    tool_exc,         \* exception that left solve_question: None or [type, at]
    \* ---- one call of a pure function (parser, truncation) ----
    fn,               \* the function applied ("none" before the call)
    fn_args,          \* its arguments
    fn_ret            \* its return value (None before the call)

runvars  == <<entry, b_provider, s_provider, env_keys, pc, llms, tools,
              browser_session, created, kills, agent, exc, thrown, diag, exit>>
toolvars == <<impl, tpc, params, screenshot_b64, shots, shot_failed, messages,
              invokes, completion, result, tool_exc>>
fnvars   == <<fn, fn_args, fn_ret>>
vars     == <<runvars, toolvars, fnvars>>

\* Optional values: None, or Some(x).
None == <<>>
Some(x) == <<x>>

----------------------------------------------------------------------------
(* Configuration and model-client factory                                   *)

\* llm_factory.py _FACTORY_MAP: the providers create_llm can build.
FACTORY_MAP == {"openai", "anthropic", "google"}

\* main.py validate_environment / create_llms: the providers main.py accepts.
MAIN_PROVIDERS == {"openai", "anthropic"}

\* Provider names an environment can resolve to ("foo": any unsupported name).
Providers == FACTORY_MAP \cup {"foo"}

NoExc == [type |-> "none", msg |-> ""]

\* Exceptions the agent runtime can raise; msg is what _handle_error looks at.
Raisable == { [type |-> "Exception",         msg |-> "connect"],
              [type |-> "Exception",         msg |-> "other"],
              [type |-> "KeyboardInterrupt", msg |-> ""],
              [type |-> "CancelledError",    msg |-> ""] }

\* Mutant of missing_keys: only the operator's provider is looked at.
missing_keys_browser_only(bp, sp, keys) ==
    { p \in FACTORY_MAP : p = bp /\ p \notin keys }

\* config.py validate_config: the keys of active providers that are missing.
missing_keys(bp, sp, keys) ==
    { p \in FACTORY_MAP : p \in {bp, sp} /\ p \notin keys }

\* The except clause (if any) that catches an exception raised in the try
\* block of run; an exception no clause matches goes straight to finally.
handler_of(e) ==
    IF e.type = "KeyboardInterrupt" THEN "except_KeyboardInterrupt"
    ELSE IF e.type = "Exception" THEN "except_Exception"
    ELSE "finally"

\* app.py _handle_error / main.py except Exception: the diagnostic printed.
handle_error(e) ==
    IF e.msg = "connect" THEN "chrome_help" ELSE "generic"

\* No solve_question invocation has started.
ToolIdle ==
    /\ tpc = "idle"
    /\ params = None
    /\ screenshot_b64 = None
    /\ shots = 0
    /\ shot_failed = FALSE
    /\ messages = <<>>
    /\ invokes = 0
    /\ completion = None
    /\ result = None
    /\ tool_exc = None

\* No pure function has been applied.
FnIdle ==
    /\ fn = "none"
    /\ fn_args = None
    /\ fn_ret = None

\* The orchestrator is inside agent.run(): the state in which the operator
\* agent calls tools.
RunIdle ==
    /\ entry = "app"
    /\ b_provider = "openai"
    /\ s_provider = "openai"
    /\ env_keys = {"openai"}
    /\ pc = "agent_run"
    /\ llms = <<"browser", "solver">>
    /\ tools = {"solve_question"}
    /\ browser_session = "session"
    /\ created = 1
    /\ kills = 0
    /\ agent = "Agent"
    /\ exc = NoExc
    /\ thrown = NoExc
    /\ diag = "none"
    /\ exit = "none"

\* The state when run is entered: any environment, nothing built yet.
Init ==
    /\ entry \in {"app", "main"}
    /\ b_provider \in Providers
    /\ s_provider \in Providers
    /\ entry = "main" => s_provider = b_provider
    /\ env_keys \in SUBSET FACTORY_MAP
    /\ pc = "validate"
    /\ llms = <<>>
    /\ tools = {}
    /\ browser_session = "None"
    /\ created = 0
    /\ kills = 0
    /\ agent = "None"
    /\ exc = NoExc
    /\ thrown = NoExc
    /\ diag = "none"
    /\ exit = "none"
    /\ impl = "solver"
    /\ ToolIdle
    /\ FnIdle

----------------------------------------------------------------------------
(* StudyAgentApp.run (entry = "app")                                        *)

\* run step 1: validate_config(self.config); sys.exit(1) on a missing key.
validate_config ==
    /\ entry = "app" /\ pc = "validate"
    /\ IF missing_keys(b_provider, s_provider, env_keys) # {}
       THEN /\ pc' = "exited"
            /\ exit' = "SystemExit"
       ELSE /\ pc' = "create_browser_llm"
            /\ exit' = exit
    /\ UNCHANGED <<entry, b_provider, s_provider, env_keys, llms, tools,
                   browser_session, created, kills, agent, exc, thrown, diag>>
    /\ UNCHANGED <<toolvars, fnvars>>

\* create_llm(config) for one role: ValueError for a provider outside
\* _FACTORY_MAP (raised outside run's try block, so it leaves run at once),
\* otherwise the provider's client is constructed.
create_llm(role, provider, next) ==
    /\ IF provider \notin FACTORY_MAP
       THEN /\ pc' = "exited"
            /\ exit' = "ValueError"
            /\ llms' = llms
       ELSE /\ pc' = next
            /\ exit' = exit
            /\ llms' = Append(llms, role)
    /\ UNCHANGED <<entry, b_provider, s_provider, env_keys, tools,
                   browser_session, created, kills, agent, exc, thrown, diag>>
    /\ UNCHANGED <<toolvars, fnvars>>

\* run step 2, create_llm_pair: browser_llm = create_llm(bc)
create_browser_llm ==
    /\ entry = "app" /\ pc = "create_browser_llm"
    /\ create_llm("browser", b_provider, "create_solver_llm")

\* run step 2, create_llm_pair: solver_llm = create_llm(sc)
create_solver_llm ==
    /\ entry = "app" /\ pc = "create_solver_llm"
    /\ create_llm("solver", s_provider, "register_solver_tool")

\* run step 3 (main.py step 3): tools = Tools(); register the solver tool.
register_solver_tool ==
    /\ pc = "register_solver_tool"
    /\ tools' = tools \cup {"solve_question"}
    /\ pc' = "create_browser_session"
    /\ UNCHANGED <<entry, b_provider, s_provider, env_keys, llms,
                   browser_session, created, kills, agent, exc, thrown, diag, exit>>
    /\ UNCHANGED <<toolvars, fnvars>>

\* run step 4 (main.py step 4): the BrowserSession object is created.
create_browser_session ==
    /\ pc = "create_browser_session"
    /\ browser_session' = "session"
    /\ created' = created + 1
    /\ pc' = "Agent"
    /\ UNCHANGED <<entry, b_provider, s_provider, env_keys, llms, tools,
                   kills, agent, exc, thrown, diag, exit>>
    /\ UNCHANGED <<toolvars, fnvars>>

\* An exception e is raised inside the try block at the current statement.
raise_in_try(e) ==
    /\ exc' = e
    /\ thrown' = e
    /\ pc' = handler_of(e)

\* run step 6 (main.py step 5): agent = Agent(...), inside try.  The
\* constructor returns, raises, or is interrupted by Ctrl+C.
construct_agent ==
    /\ pc = "Agent"
    /\ \/ /\ agent' = "Agent"
          /\ pc' = "agent_run"
          /\ UNCHANGED <<exc, thrown>>
       \/ /\ \E e \in {x \in Raisable : x.type # "CancelledError"} : raise_in_try(e)
          /\ agent' = agent
    /\ UNCHANGED <<entry, b_provider, s_provider, env_keys, llms, tools,
                   browser_session, created, kills, diag, exit>>
    /\ UNCHANGED <<toolvars, fnvars>>

\* run step 7 (main.py step 6): result = await agent.run().  It returns,
\* raises, is interrupted, or the awaiting task is cancelled.
agent_run ==
    /\ pc = "agent_run"
    /\ \/ /\ pc' = "print_result"
          /\ UNCHANGED <<exc, thrown>>
       \/ \E e \in Raisable : raise_in_try(e)
    /\ UNCHANGED <<entry, b_provider, s_provider, env_keys, llms, tools,
                   browser_session, created, kills, agent, diag, exit>>
    /\ UNCHANGED <<toolvars, fnvars>>

\* run step 8 (main.py step 7): the result summary is printed.
print_result ==
    /\ pc = "print_result"
    /\ diag' = "summary"
    /\ pc' = "finally"
    /\ UNCHANGED <<entry, b_provider, s_provider, env_keys, llms, tools,
                   browser_session, created, kills, agent, exc, thrown, exit>>
    /\ UNCHANGED <<toolvars, fnvars>>

\* except KeyboardInterrupt: print and swallow.
except_KeyboardInterrupt ==
    /\ pc = "except_KeyboardInterrupt"
    /\ exc' = NoExc
    /\ diag' = "aborted"
    /\ pc' = "finally"
    /\ UNCHANGED <<entry, b_provider, s_provider, env_keys, llms, tools,
                   browser_session, created, kills, agent, thrown, exit>>
    /\ UNCHANGED <<toolvars, fnvars>>

\* Mutant of except_Exception: the handler reports the error and swallows it.
except_Exception_swallow ==
    /\ pc = "except_Exception"
    /\ diag' = handle_error(exc)
    /\ exc' = NoExc
    /\ pc' = "finally"
    /\ UNCHANGED <<entry, b_provider, s_provider, env_keys, llms, tools,
                   browser_session, created, kills, agent, thrown, exit>>
    /\ UNCHANGED <<toolvars, fnvars>>

\* except Exception as e: self._handle_error(e); raise.
except_Exception ==
    /\ pc = "except_Exception"
    /\ diag' = handle_error(exc)
    /\ exc' = exc
    /\ pc' = "finally"
    /\ UNCHANGED <<entry, b_provider, s_provider, env_keys, llms, tools,
                   browser_session, created, kills, agent, thrown, exit>>
    /\ UNCHANGED <<toolvars, fnvars>>

\* Mutant of cleanup: the session is released only when no exception is in
\* flight (cleanup placed after the try statement instead of in finally).
cleanup_not_on_error ==
    /\ entry = "app" /\ pc = "finally"
    /\ IF browser_session # "None" /\ exc = NoExc
       THEN /\ kills' = kills + 1
            /\ browser_session' = "None"
       ELSE UNCHANGED <<kills, browser_session>>
    /\ pc' = "leave"
    /\ UNCHANGED <<entry, b_provider, s_provider, env_keys, llms, tools,
                   created, agent, exc, thrown, diag, exit>>
    /\ UNCHANGED <<toolvars, fnvars>>

\* finally: await self.cleanup() -- kill the session if there is one and
\* forget it.
cleanup ==
    /\ entry = "app" /\ pc = "finally"
    /\ IF browser_session # "None"
       THEN /\ kills' = kills + 1
            /\ browser_session' = "None"
       ELSE UNCHANGED <<kills, browser_session>>
    /\ pc' = "leave"
    /\ UNCHANGED <<entry, b_provider, s_provider, env_keys, llms, tools,
                   created, agent, exc, thrown, diag, exit>>
    /\ UNCHANGED <<toolvars, fnvars>>

\* End of the try statement: an exception still in flight leaves run,
\* otherwise run returns.
leave_run ==
    /\ pc = "leave"
    /\ exit' = IF exc = NoExc THEN "return" ELSE exc.type
    /\ pc' = "exited"
    /\ UNCHANGED <<entry, b_provider, s_provider, env_keys, llms, tools,
                   browser_session, created, kills, agent, exc, thrown, diag>>
    /\ UNCHANGED <<toolvars, fnvars>>

----------------------------------------------------------------------------
(* main.py main (entry = "main")                                            *)

\* main step 1: validate_environment(); sys.exit(1) on a missing key or an
\* unsupported MODEL_PROVIDER.
validate_environment ==
    /\ entry = "main" /\ pc = "validate"
    /\ IF b_provider \notin MAIN_PROVIDERS \/ b_provider \notin env_keys
       THEN /\ pc' = "exited"
            /\ exit' = "SystemExit"
       ELSE /\ pc' = "create_llms"
            /\ exit' = exit
    /\ UNCHANGED <<entry, b_provider, s_provider, env_keys, llms, tools,
                   browser_session, created, kills, agent, exc, thrown, diag>>
    /\ UNCHANGED <<toolvars, fnvars>>

\* main step 2: create_llms() builds both clients for MODEL_PROVIDER, or
\* raises ValueError before building any.
create_llms ==
    /\ entry = "main" /\ pc = "create_llms"
    /\ IF b_provider \in MAIN_PROVIDERS
       THEN /\ llms' = llms \o <<"browser", "solver">>
            /\ pc' = "register_solver_tool"
            /\ exit' = exit
       ELSE /\ llms' = llms
            /\ pc' = "exited"
            /\ exit' = "ValueError"
    /\ UNCHANGED <<entry, b_provider, s_provider, env_keys, tools,
                   browser_session, created, kills, agent, exc, thrown, diag>>
    /\ UNCHANGED <<toolvars, fnvars>>

\* main finally: await browser_session.kill(), unconditionally.
main_finally ==
    /\ entry = "main" /\ pc = "finally"
    /\ kills' = kills + 1
    /\ pc' = "leave"
    /\ UNCHANGED <<entry, b_provider, s_provider, env_keys, llms, tools,
                   browser_session, created, agent, exc, thrown, diag, exit>>
    /\ UNCHANGED <<toolvars, fnvars>>

Next ==
    \/ validate_config
    \/ create_browser_llm
    \/ create_solver_llm
    \/ register_solver_tool
    \/ create_browser_session
    \/ construct_agent
    \/ agent_run
    \/ print_result
    \/ except_KeyboardInterrupt
    \/ except_Exception
    \/ cleanup
    \/ leave_run
    \/ validate_environment
    \/ create_llms
    \/ main_finally

Spec == Init /\ [][Next]_vars

----------------------------------------------------------------------------
(* Strings                                                                  *)

\* The characters str.strip() removes.
Whitespace == {" ", "u000A", "u0009", "u000D", "u000B", "u000C"}

\* s[:n]
Take(s, n) == SubSeq(s, 1, IF n < Len(s) THEN n ELSE Len(s))

\* m occurs in s at (1-based) position i.
HasAt(s, m, i) == \A j \in 1..Len(m) : s[i + j - 1] = m[j]

\* The positions at which m occurs in s.
Occurrences(s, m) == { i \in 1..(Len(s) - Len(m) + 1) : HasAt(s, m, i) }

\* m in s
contains(s, m) == Occurrences(s, m) # {}

\* s.split(m, 1): one piece if m does not occur, else the text before the
\* first occurrence and the text after it.
split1(s, m) ==
    LET occ == Occurrences(s, m)
    IN  IF occ = {} THEN <<s>>
        ELSE LET i == CHOOSE k \in occ : \A l \in occ : k <= l
             IN  <<SubSeq(s, 1, i - 1), SubSeq(s, i + Len(m), Len(s))>>

RECURSIVE lstrip(_)
lstrip(s) ==
    IF s # <<>> /\ Head(s) \in Whitespace THEN lstrip(Tail(s)) ELSE s

RECURSIVE rstrip(_)
rstrip(s) ==
    IF s # <<>> /\ s[Len(s)] \in Whitespace
    THEN rstrip(SubSeq(s, 1, Len(s) - 1)) ELSE s

\* s.strip()
strip(s) == rstrip(lstrip(s))

\* solver.py / main.py literals.
ANSWER_MARK ==
    << "A", "N", "S", "W", "E", "R", ":" >>

REASONING_MARK ==
    << "R", "E", "A", "S", "O", "N", "I", "N", "G", ":" >>

\* "...(推理已截断)"
TRUNC_MARK ==
    << ".", ".", ".", "(", "u63A8", "u7406", "u5DF2", "u622A", "u65AD", ")" >>

----------------------------------------------------------------------------
(* Solver response parser and reasoning truncation                          *)

\* Mutant of parse_solver_response: text without "ANSWER:" is trimmed too.
parse_solver_response_trims_raw(answer_text) ==
    IF contains(answer_text, ANSWER_MARK)
    THEN LET pieces == split1(answer_text, ANSWER_MARK)
             after_answer == pieces[Len(pieces)]
         IN  IF contains(after_answer, REASONING_MARK)
             THEN <<strip(split1(after_answer, REASONING_MARK)[1]),
                    strip(split1(after_answer, REASONING_MARK)[2])>>
             ELSE <<strip(after_answer), <<>>>>
    ELSE <<strip(answer_text), <<>>>>

\* Mutant of parse_solver_response: "REASONING:" is looked for in the whole
\* text, whether or not "ANSWER:" occurs.
parse_solver_response_reasoning_anywhere(answer_text) ==
    LET pieces == split1(answer_text, ANSWER_MARK)
        after_answer == pieces[Len(pieces)]
    IN  IF contains(after_answer, REASONING_MARK)
        THEN <<strip(split1(after_answer, REASONING_MARK)[1]),
               strip(split1(after_answer, REASONING_MARK)[2])>>
        ELSE IF contains(answer_text, ANSWER_MARK)
        THEN <<strip(after_answer), <<>>>>
        ELSE <<answer_text, <<>>>>

\* Mutant of parse_solver_response: the region starts after the LAST
\* "ANSWER:" (rsplit instead of split).
parse_solver_response_last_answer(answer_text) ==
    IF contains(answer_text, ANSWER_MARK)
    THEN LET occ == Occurrences(answer_text, ANSWER_MARK)
             last == CHOOSE k \in occ : \A l \in occ : l <= k
             after_answer == SubSeq(answer_text, last + Len(ANSWER_MARK),
                                    Len(answer_text))
         IN  IF contains(after_answer, REASONING_MARK)
             THEN <<strip(split1(after_answer, REASONING_MARK)[1]),
                    strip(split1(after_answer, REASONING_MARK)[2])>>
             ELSE <<strip(after_answer), <<>>>>
    ELSE <<answer_text, <<>>>>

\* parse_solver_response(answer_text) -> <<answer_part, reasoning_part>>
parse_solver_response(answer_text) ==
    IF contains(answer_text, ANSWER_MARK)
    THEN LET pieces == split1(answer_text, ANSWER_MARK)
             after_answer == pieces[Len(pieces)]
         IN  IF contains(after_answer, REASONING_MARK)
             THEN <<strip(split1(after_answer, REASONING_MARK)[1]),
                    strip(split1(after_answer, REASONING_MARK)[2])>>
             ELSE <<strip(after_answer), <<>>>>
    ELSE <<answer_text, <<>>>>

\* The reasoning ceilings per question type.
limits == [choice |-> 200, judge |-> 150, fill |-> 300, essay |-> 1500,
           auto |-> 500]

\* limits.get(question_type, 500)
limits_get(question_type) ==
    IF question_type \in DOMAIN limits THEN limits[question_type] ELSE 500

\* Mutant of truncate_reasoning: the ceiling test is strict, so a reasoning
\* of exactly max_len characters gets the marker.
truncate_reasoning_strict(reasoning, question_type) ==
    LET max_len == limits_get(question_type)
    IN  IF Len(reasoning) < max_len THEN reasoning
        ELSE Take(reasoning, max_len) \o TRUNC_MARK

\* solver.py truncate_reasoning(reasoning, question_type)
truncate_reasoning(reasoning, question_type) ==
    LET max_len == limits_get(question_type)
    IN  IF Len(reasoning) <= max_len THEN reasoning
        ELSE Take(reasoning, max_len) \o TRUNC_MARK

\* main.py solve_question, inline: truncated_reasoning = reasoning_part[:max];
\* the marker is appended if len(reasoning_part) > max.
main_truncate_reasoning(reasoning_part, question_type) ==
    LET max_reasoning == limits_get(question_type)
        truncated_reasoning == Take(reasoning_part, max_reasoning)
    IN  IF Len(reasoning_part) > max_reasoning
        THEN truncated_reasoning \o TRUNC_MARK
        ELSE truncated_reasoning

\* The question_type values a call can carry: the five documented ones and
\* one value outside them (the parameter is a plain str).
QTypes == {"choice", "judge", "fill", "essay", "auto", "other"}

\* A text of n code points without whitespace or markers.
Cycle == <<"a", "b", "c", "d", "e", "f", "g">>
Text(n) == [i \in 1..n |-> Cycle[((i - 1) % Len(Cycle)) + 1]]

\* How far around each ceiling the reasoning lengths are taken.
Margin == 1

\* Reasoning lengths: empty, and around every ceiling.
TruncLens ==
    {0} \cup UNION { (limits[t] - Margin)..(limits[t] + Margin) : t \in DOMAIN limits }

InitTrunc ==
    /\ RunIdle
    /\ impl = "solver"
    /\ ToolIdle
    /\ fn = "none"
    /\ fn_ret = None
    /\ fn_args \in { Some([reasoning |-> Text(n), question_type |-> t]) :
                       n \in TruncLens, t \in QTypes }

\* truncate_reasoning is applied to the arguments.
call_truncate_reasoning ==
    /\ fn = "none"
    /\ fn' = "truncate_reasoning"
    /\ fn_ret' = Some(truncate_reasoning(fn_args[1].reasoning,
                                         fn_args[1].question_type))
    /\ UNCHANGED <<fn_args, runvars, toolvars>>

\* main.py's inline truncation is applied to the arguments.
call_main_truncate_reasoning ==
    /\ fn = "none"
    /\ fn' = "main_truncate_reasoning"
    /\ fn_ret' = Some(main_truncate_reasoning(fn_args[1].reasoning,
                                              fn_args[1].question_type))
    /\ UNCHANGED <<fn_args, runvars, toolvars>>

NextTrunc ==
    \/ call_truncate_reasoning
    \/ call_main_truncate_reasoning

SpecTrunc == InitTrunc /\ [][NextTrunc]_vars

\* How many pieces a raw solver text is put together from.
MaxPieces == 5

\* The pieces of a raw solver text: the two markers, whitespace, and two
\* different characters of other text.
Pieces == {ANSWER_MARK, REASONING_MARK, <<" ">>, <<"x">>, <<"y">>}

\* The texts made of at most k pieces.
RECURSIVE Joined(_)
Joined(k) ==
    IF k = 0 THEN {<<>>}
    ELSE LET shorter == Joined(k - 1)
         IN  shorter \cup { s \o piece : s \in shorter, piece \in Pieces }

InitParse ==
    /\ RunIdle
    /\ impl = "solver"
    /\ ToolIdle
    /\ fn = "none"
    /\ fn_ret = None
    /\ fn_args \in { Some([answer_text |-> s]) : s \in Joined(MaxPieces) }

\* parse_solver_response is applied to the argument.
call_parse_solver_response ==
    /\ fn = "none"
    /\ fn' = "parse_solver_response"
    /\ fn_ret' = Some(parse_solver_response(fn_args[1].answer_text))
    /\ UNCHANGED <<fn_args, runvars, toolvars>>

NextParse == call_parse_solver_response

SpecParse == InitParse /\ [][NextParse]_vars

----------------------------------------------------------------------------
(* config.py load_config and llm_factory.py create_llm_pair as functions of *)
(* the environment                                                          *)

\* Provider names as the environment spells them.
OPENAI == <<"o", "p", "e", "n", "a", "i">>
ANTHROPIC == <<"a", "n", "t", "h", "r", "o", "p", "i", "c">>
GOOGLE == <<"g", "o", "o", "g", "l", "e">>
OPENAI_MIXED == <<"O", "p", "e", "n", "A", "I">>

UPPERCASE == <<"A", "B", "C", "D", "E", "F", "G", "H", "I", "J", "K", "L", "M", "N", "O", "P", "Q", "R", "S", "T", "U", "V", "W", "X", "Y", "Z">>
LOWERCASE == <<"a", "b", "c", "d", "e", "f", "g", "h", "i", "j", "k", "l", "m", "n", "o", "p", "q", "r", "s", "t", "u", "v", "w", "x", "y", "z">>

\* str.lower
lower(s) ==
    [i \in 1..Len(s) |->
        IF \E k \in 1..Len(UPPERCASE) : UPPERCASE[k] = s[i]
        THEN LOWERCASE[CHOOSE k \in 1..Len(UPPERCASE) : UPPERCASE[k] = s[i]]
        ELSE s[i]]

\* os.getenv(name, default)
getenv(environ, name, default) ==
    IF environ[name] = None THEN default ELSE environ[name][1]

\* LLMConfig; model and base_url stay None (the *_MODEL and *_BASE_URL
\* variables are left unset).
LLMConfig(provider, max_completion_tokens) ==
    [provider |-> provider, model |-> None, base_url |-> None,
     max_completion_tokens |-> max_completion_tokens]

\* Mutant of load_config: the solver ceiling follows DEFAULT_PROVIDER.
load_config_ceiling_by_default(environ) ==
    LET default_provider == lower(getenv(environ, "DEFAULT_PROVIDER", OPENAI))
        bp == lower(getenv(environ, "BROWSER_PROVIDER", default_provider))
        sp == lower(getenv(environ, "SOLVER_PROVIDER", default_provider))
        s_max_tokens == IF default_provider = OPENAI THEN Some(16384) ELSE None
    IN  [browser_llm |-> LLMConfig(bp, None),
         solver_llm |-> LLMConfig(sp, s_max_tokens)]

\* load_config
load_config(environ) ==
    LET default_provider == lower(getenv(environ, "DEFAULT_PROVIDER", OPENAI))
        bp == lower(getenv(environ, "BROWSER_PROVIDER", default_provider))
        sp == lower(getenv(environ, "SOLVER_PROVIDER", default_provider))
        s_max_tokens == IF sp = OPENAI THEN Some(16384) ELSE None
    IN  [browser_llm |-> LLMConfig(bp, None),
         solver_llm |-> LLMConfig(sp, s_max_tokens)]

\* _create_openai_llm: max_completion_tokens is passed on when it is set.
_create_openai_llm(config) ==
    [cls |-> "ChatOpenAI", max_completion_tokens |-> config.max_completion_tokens]

\* _create_anthropic_llm: only the model is passed.
_create_anthropic_llm(config) ==
    [cls |-> "ChatAnthropic", max_completion_tokens |-> None]

\* _create_google_llm: only the model is passed.
_create_google_llm(config) ==
    [cls |-> "ChatGoogle", max_completion_tokens |-> None]

\* create_llm for a provider of _FACTORY_MAP.
create_llm_client(config) ==
    IF config.provider = OPENAI THEN _create_openai_llm(config)
    ELSE IF config.provider = ANTHROPIC THEN _create_anthropic_llm(config)
    ELSE _create_google_llm(config)

\* create_llm_pair: (browser_llm, solver_llm)
create_llm_pair(app_config) ==
    <<create_llm_client(app_config.browser_llm),
      create_llm_client(app_config.solver_llm)>>

\* What DEFAULT_PROVIDER, BROWSER_PROVIDER and SOLVER_PROVIDER can hold:
\* unset, or a supported provider in some spelling.
EnvValues == {None} \cup { Some(v) : v \in {OPENAI, ANTHROPIC, GOOGLE, OPENAI_MIXED} }

Environments ==
    [{"DEFAULT_PROVIDER", "BROWSER_PROVIDER", "SOLVER_PROVIDER"} -> EnvValues]

InitConfig ==
    /\ RunIdle
    /\ impl = "solver"
    /\ ToolIdle
    /\ fn = "none"
    /\ fn_ret = None
    /\ fn_args \in { Some(environ) : environ \in Environments }

call_load_config ==
    /\ fn = "none"
    /\ fn' = "load_config"
    /\ fn_ret' = Some([config |-> load_config(fn_args[1]), clients |-> <<>>])
    /\ UNCHANGED <<fn_args, runvars, toolvars>>

call_create_llm_pair ==
    /\ fn = "load_config"
    /\ fn' = "create_llm_pair"
    /\ fn_ret' = Some([fn_ret[1] EXCEPT !.clients = create_llm_pair(fn_ret[1].config)])
    /\ UNCHANGED <<fn_args, runvars, toolvars>>

NextConfig ==
    \/ call_load_config
    \/ call_create_llm_pair

SpecConfig == InitConfig /\ [][NextConfig]_vars

----------------------------------------------------------------------------
(* solve_question: request building                                         *)

\* "请解答以下题目：\n\n"
USER_HEAD ==
    << "u8BF7", "u89E3", "u7B54", "u4EE5", "u4E0B", "u9898", "u76EE", "uFF1A", "u000A", "u000A" >>

\* "\n\n提示："
TYPE_HINT_HEAD ==
    << "u000A", "u000A", "u63D0", "u793A", "uFF1A" >>

\* type_map values
TYPE_CHOICE ==
    << "u8FD9", "u662F", "u4E00", "u9053", "u9009", "u62E9", "u9898" >>

TYPE_FILL ==
    << "u8FD9", "u662F", "u4E00", "u9053", "u586B", "u7A7A", "u9898" >>

TYPE_JUDGE ==
    << "u8FD9", "u662F", "u4E00", "u9053", "u5224", "u65AD", "u9898" >>

TYPE_ESSAY ==
    << "u8FD9", "u662F", "u4E00", "u9053", "u7B80", "u7B54", "u9898", "/", "u8BBA", "u8FF0",
       "u9898" >>

\* "\n\n答案格式要求："
FORMAT_HINT_HEAD ==
    << "u000A", "u000A", "u7B54", "u6848", "u683C", "u5F0F", "u8981", "u6C42", "uFF1A" >>

\* "请优先使用小数形式（保留两位小数），不要使用 LaTeX 或特殊符号。"
FORMAT_DEFAULT ==
    << "u8BF7", "u4F18", "u5148", "u4F7F", "u7528", "u5C0F", "u6570", "u5F62", "u5F0F", "uFF08",
       "u4FDD", "u7559", "u4E24", "u4F4D", "u5C0F", "u6570", "uFF09", "uFF0C", "u4E0D", "u8981",
       "u4F7F", "u7528", " ", "L", "a", "T", "e", "X", " ", "u6216",
       "u7279", "u6B8A", "u7B26", "u53F7", "u3002" >>

\* The fixed text part that precedes the image.
IMAGE_INSTRUCTION ==
    << "u000A", "u4EE5", "u4E0B", "u662F", "u9898", "u76EE", "u6240", "u5728", "u9875", "u9762",
       "u7684", "u622A", "u56FE", "uFF0C", "u8BF7", "u7ED3", "u5408", "u622A", "u56FE", "u4E2D",
       "u7684", "u89C6", "u89C9", "u4FE1", "u606F", "uFF08", "u56FE", "u8868", "u3001", "u56FE",
       "u5F62", "u3001", "u516C", "u5F0F", "u7B49", "uFF09", "u8FDB", "u884C", "u89E3", "u9898",
       "uFF1A" >>

DATA_URL_HEAD ==
    << "d", "a", "t", "a", ":", "i", "m", "a", "g", "e",
       "/", "p", "n", "g", ";", "b", "a", "s", "e", "6",
       "4", "," >>

\* The solver persona text (one opaque value: nothing reads inside it).
SOLVER_SYSTEM_PROMPT == <<"SOLVER_SYSTEM_PROMPT">>

B64_ALPHABET ==
    << "A", "B", "C", "D", "E", "F", "G", "H", "I", "J",
       "K", "L", "M", "N", "O", "P", "Q", "R", "S", "T",
       "U", "V", "W", "X", "Y", "Z", "a", "b", "c", "d",
       "e", "f", "g", "h", "i", "j", "k", "l", "m", "n",
       "o", "p", "q", "r", "s", "t", "u", "v", "w", "x",
       "y", "z", "0", "1", "2", "3", "4", "5", "6", "7",
       "8", "9", "+", "/" >>

b64char(v) == B64_ALPHABET[v + 1]

\* base64.b64encode(screenshot_bytes).decode("utf-8")
RECURSIVE b64encode(_)
b64encode(bs) ==
    IF bs = <<>> THEN <<>>
    ELSE IF Len(bs) = 1
    THEN <<b64char(bs[1] \div 4), b64char((bs[1] % 4) * 16), "=", "=">>
    ELSE IF Len(bs) = 2
    THEN <<b64char(bs[1] \div 4),
           b64char((bs[1] % 4) * 16 + bs[2] \div 16),
           b64char((bs[2] % 16) * 4), "=">>
    ELSE <<b64char(bs[1] \div 4),
           b64char((bs[1] % 4) * 16 + bs[2] \div 16),
           b64char((bs[2] % 16) * 4 + bs[3] \div 64),
           b64char(bs[3] % 64)>> \o b64encode(SubSeq(bs, 4, Len(bs)))

\* type_map.get(question_type, '')
type_map_get(question_type) ==
    CASE question_type = "choice" -> TYPE_CHOICE
      [] question_type = "fill"   -> TYPE_FILL
      [] question_type = "judge"  -> TYPE_JUDGE
      [] question_type = "essay"  -> TYPE_ESSAY
      [] OTHER                    -> <<>>

\* type_hint
type_hint(p) ==
    IF p.question_type # "auto"
    THEN TYPE_HINT_HEAD \o type_map_get(p.question_type)
    ELSE <<>>

\* Mutant of format_hint: the fill default wins over an explicit hint.
format_hint_fill_first(p) ==
    IF p.question_type = "fill"
    THEN FORMAT_HINT_HEAD \o FORMAT_DEFAULT
    ELSE IF p.answer_format_hint # <<>>
    THEN FORMAT_HINT_HEAD \o p.answer_format_hint
    ELSE <<>>

\* format_hint
format_hint(p) ==
    IF p.answer_format_hint # <<>>
    THEN FORMAT_HINT_HEAD \o p.answer_format_hint
    ELSE IF p.question_type = "fill"
    THEN FORMAT_HINT_HEAD \o FORMAT_DEFAULT
    ELSE <<>>

\* user_text
user_text(p) == USER_HEAD \o p.question \o type_hint(p) \o format_hint(p)

\* Message content: a plain str, or a list of content parts.
StrContent(text) == [type |-> "str", text |-> text, parts |-> <<>>]
ListContent(parts) == [type |-> "list", text |-> <<>>, parts |-> parts]
TextPart(text) ==
    [type |-> "text", text |-> text, url |-> <<>>, media_type |-> "",
     detail |-> ""]
ImagePart(b64) ==
    [type |-> "image_url", text |-> <<>>, url |-> DATA_URL_HEAD \o b64,
     media_type |-> "image/png", detail |-> "high"]

\* Mutant of user_message: the screenshot is never attached.
user_message_text_only(p, b64) ==
    [role |-> "user", content |-> StrContent(user_text(p))]

\* user_message: multi-part if screenshot_b64 is truthy (neither None nor
\* the empty string), plain text otherwise.
user_message(p, b64) ==
    IF b64 # None /\ b64[1] # <<>>
    THEN [role |-> "user",
          content |-> ListContent(<<TextPart(user_text(p)),
                                    TextPart(IMAGE_INSTRUCTION),
                                    ImagePart(b64[1])>>)]
    ELSE [role |-> "user", content |-> StrContent(user_text(p))]

\* messages = [SystemMessage(...), user_message]
build_messages(p, b64) ==
    << [role |-> "system", content |-> StrContent(SOLVER_SYSTEM_PROMPT)],
       user_message(p, b64) >>

\* main.py solve_question: messages (text only).
main_build_messages(p) ==
    << [role |-> "system", content |-> StrContent(SOLVER_SYSTEM_PROMPT)],
       [role |-> "user", content |-> StrContent(user_text(p))] >>

----------------------------------------------------------------------------
(* solve_question: result assembly                                          *)

\* "题目答案：\n"
EXTRACTED_HEAD ==
    << "u9898", "u76EE", "u7B54", "u6848", "uFF1A", "u000A" >>

ANSWER_HEAD ==
    << "A", "N", "S", "W", "E", "R", ":", " " >>

REASONING_HEAD ==
    << "u000A", "u000A", "R", "E", "A", "S", "O", "N", "I", "N",
       "G", ":", " " >>

\* "题目："
MEMORY_HEAD ==
    << "u9898", "u76EE", "uFF1A" >>

\* "... → 答案："
MEMORY_MID ==
    << ".", ".", ".", " ", "u2192", " ", "u7B54", "u6848", "uFF1A" >>

\* Mutant of result_content: the REASONING section is always appended.
result_content_always_reasoning(answer_part, truncated_reasoning) ==
    ANSWER_HEAD \o answer_part \o REASONING_HEAD \o truncated_reasoning

\* result_content = "ANSWER: " + answer, plus the REASONING section if the
\* truncated reasoning is non-empty.
result_content(answer_part, truncated_reasoning) ==
    IF truncated_reasoning # <<>>
    THEN ANSWER_HEAD \o answer_part \o REASONING_HEAD \o truncated_reasoning
    ELSE ANSWER_HEAD \o answer_part

\* Mutant of action_result: the length policy is applied to the answer too.
action_result_truncated_answer(p, answer_text) ==
    LET parsed == parse_solver_response(answer_text)
        answer_part == truncate_reasoning(parsed[1], p.question_type)
        truncated_reasoning == truncate_reasoning(parsed[2], p.question_type)
    IN  [extracted_content |->
             EXTRACTED_HEAD \o result_content(answer_part, truncated_reasoning),
         long_term_memory |->
             MEMORY_HEAD \o Take(p.question, 100) \o MEMORY_MID \o answer_part]

\* solve_question after the solver call: parse, truncate, assemble.
action_result(p, answer_text) ==
    LET parsed == parse_solver_response(answer_text)
        answer_part == parsed[1]
        truncated_reasoning == truncate_reasoning(parsed[2], p.question_type)
    IN  [extracted_content |->
             EXTRACTED_HEAD \o result_content(answer_part, truncated_reasoning),
         long_term_memory |->
             MEMORY_HEAD \o Take(p.question, 100) \o MEMORY_MID \o answer_part]

\* main.py solve_question after the solver call (parser and truncation inline).
main_action_result(p, answer_text) ==
    LET after_answer == split1(answer_text, ANSWER_MARK)[Len(split1(answer_text, ANSWER_MARK))]
        answer_part ==
            IF contains(answer_text, ANSWER_MARK)
            THEN IF contains(after_answer, REASONING_MARK)
                 THEN strip(split1(after_answer, REASONING_MARK)[1])
                 ELSE strip(after_answer)
            ELSE answer_text
        reasoning_part ==
            IF contains(answer_text, ANSWER_MARK) /\ contains(after_answer, REASONING_MARK)
            THEN strip(split1(after_answer, REASONING_MARK)[2])
            ELSE <<>>
        truncated_reasoning == main_truncate_reasoning(reasoning_part, p.question_type)
        content ==
            IF truncated_reasoning # <<>>
            THEN ANSWER_HEAD \o answer_part \o REASONING_HEAD \o truncated_reasoning
            ELSE ANSWER_HEAD \o answer_part
    IN  [extracted_content |-> EXTRACTED_HEAD \o content,
         long_term_memory |->
             MEMORY_HEAD \o Take(p.question, 100) \o MEMORY_MID \o answer_part]

----------------------------------------------------------------------------
(* solve_question: one invocation                                           *)

\* "【单选题】2+2=? A.3 B.4 C.5"
Q_EXAMPLE ==
    << "u3010", "u5355", "u9009", "u9898", "u3011", "2", "+", "2", "=", "?",
       " ", "A", ".", "3", " ", "B", ".", "4", " ", "C",
       ".", "5" >>

\* "as a fraction"
HINT_EXAMPLE ==
    << "a", "s", " ", "a", " ", "f", "r", "a", "c", "t",
       "i", "o", "n" >>

\* "2+2 equals 4 which is option B."
R_EXAMPLE ==
    << "2", "+", "2", " ", "e", "q", "u", "a", "l", "s",
       " ", "4", " ", "w", "h", "i", "c", "h", " ", "i",
       "s", " ", "o", "p", "t", "i", "o", "n", " ", "B",
       "." >>

\* Length of the long question text (beyond the 100 kept in the memory line).
QLong == 101

Questions == {<<>>, Q_EXAMPLE, Text(QLong)}
Hints == {<<>>, HINT_EXAMPLE}

\* The parameter values a call can carry.
ParamSpace(shot_values) ==
    [question : Questions, question_type : QTypes,
     answer_format_hint : Hints, include_screenshot : shot_values]

\* Bytes take_screenshot can return: image data, so never empty (one, two
\* and four bytes, for the three padding cases of base64).
Screenshots == {<<137>>, <<137, 80>>, <<137, 80, 78, 71>>}

\* What an awaited collaborator call can raise: an error, or cancellation of
\* the awaiting task (a BaseException, which "except Exception" lets pass).
AwaitRaises == {"Exception", "CancelledError"}

\* A completion in the format the solver persona is told to use.
Reply(a, r) ==
    ANSWER_MARK \o <<" ">> \o a \o <<"u000A", "u000A">> \o REASONING_MARK
        \o <<" ">> \o r

\* Answer and reasoning lengths of the solver's replies: empty, short, and
\* beyond the ceilings.
AnswerLens == {0, 1} \cup { limits[t] + Margin : t \in {"judge", "essay"} }
ReasonLens == {0, 1} \cup { limits[t] + Margin : t \in DOMAIN limits }

EXAMPLE_COMPLETION == Reply(<<"B">>, R_EXAMPLE)

\* The completions the solver model can return.
Completions ==
    { Reply(Text(na), Text(nr)) : na \in AnswerLens, nr \in ReasonLens }
    \cup { EXAMPLE_COMPLETION,
           ANSWER_MARK \o <<" ", "0", ".", "8", "7">>,
           <<" ", "4", "2", "u000A">>,
           REASONING_MARK \o <<" ", "x">> }

InitTool ==
    /\ RunIdle
    /\ FnIdle
    /\ ToolIdle
    /\ impl \in {"solver", "main"}

\* The request is built and handed to solver_llm.ainvoke (the call is now
\* awaited).
start_ainvoke(msgs) ==
    /\ messages' = msgs
    /\ invokes' = invokes + 1
    /\ tpc' = "ainvoke"

\* Mutant of solve_question: the screenshot is taken whether or not
\* include_screenshot is set.
solve_question_always_screenshot ==
    /\ impl = "solver" /\ tpc = "idle"
    /\ \E p \in ParamSpace(BOOLEAN) :
          /\ params' = Some(p)
          /\ shots' = shots + 1
          /\ tpc' = "take_screenshot"
          /\ UNCHANGED <<messages, invokes>>
    /\ UNCHANGED <<impl, screenshot_b64, shot_failed, completion, result, tool_exc>>
    /\ UNCHANGED <<runvars, fnvars>>

\* solver.py solve_question is called: up to its first await.
solve_question ==
    /\ impl = "solver" /\ tpc = "idle"
    /\ \E p \in ParamSpace(BOOLEAN) :
          /\ params' = Some(p)
          /\ IF p.include_screenshot
             THEN /\ shots' = shots + 1
                  /\ tpc' = "take_screenshot"
                  /\ UNCHANGED <<messages, invokes>>
             ELSE /\ start_ainvoke(build_messages(p, None))
                  /\ shots' = shots
    /\ UNCHANGED <<impl, screenshot_b64, shot_failed, completion, result, tool_exc>>
    /\ UNCHANGED <<runvars, fnvars>>

\* main.py solve_question is called (no screenshot parameter): up to its await.
main_solve_question ==
    /\ impl = "main" /\ tpc = "idle"
    /\ \E p \in ParamSpace({FALSE}) :
          /\ params' = Some(p)
          /\ start_ainvoke(main_build_messages(p))
    /\ UNCHANGED <<impl, screenshot_b64, shots, shot_failed, completion, result, tool_exc>>
    /\ UNCHANGED <<runvars, fnvars>>

\* Mutant of on_screenshot_exception: no try/except around take_screenshot.
on_screenshot_exception_propagate(e) ==
    /\ shot_failed' = (e = "Exception")
    /\ tool_exc' = Some([type |-> e, at |-> "take_screenshot"])
    /\ tpc' = "raised"
    /\ UNCHANGED <<screenshot_b64, messages, invokes>>

\* take_screenshot raised e: "except Exception" logs and goes on without a
\* screenshot; anything else leaves solve_question.
on_screenshot_exception(e) ==
    IF e = "Exception"
    THEN /\ shot_failed' = TRUE
         /\ screenshot_b64' = None
         /\ start_ainvoke(build_messages(params[1], None))
         /\ tool_exc' = tool_exc
    ELSE /\ tool_exc' = Some([type |-> e, at |-> "take_screenshot"])
         /\ tpc' = "raised"
         /\ UNCHANGED <<shot_failed, screenshot_b64, messages, invokes>>

\* The awaited take_screenshot finishes: from there to the next await.
take_screenshot ==
    /\ tpc = "take_screenshot"
    /\ \/ \E screenshot_bytes \in Screenshots :
             /\ screenshot_b64' = Some(b64encode(screenshot_bytes))
             /\ start_ainvoke(build_messages(params[1],
                                             Some(b64encode(screenshot_bytes))))
             /\ UNCHANGED <<shot_failed, tool_exc>>
       \/ \E e \in AwaitRaises : on_screenshot_exception(e)
    /\ UNCHANGED <<impl, params, shots, completion, result>>
    /\ UNCHANGED <<runvars, fnvars>>

\* Bound on the calls the retrying mutant makes.
MaxInvokes == 2

\* Mutant of on_ainvoke_exception: a failed call is tried again.
on_ainvoke_exception_retry(e) ==
    IF e = "Exception" /\ invokes < MaxInvokes
    THEN /\ invokes' = invokes + 1
         /\ UNCHANGED <<tpc, tool_exc>>
    ELSE /\ tool_exc' = Some([type |-> e, at |-> "ainvoke"])
         /\ tpc' = "raised"
         /\ invokes' = invokes

\* solver_llm.ainvoke raised e: nothing catches it, it leaves solve_question.
on_ainvoke_exception(e) ==
    /\ tool_exc' = Some([type |-> e, at |-> "ainvoke"])
    /\ tpc' = "raised"
    /\ invokes' = invokes

\* The awaited solver_llm.ainvoke finishes: from there to the return.
ainvoke ==
    /\ tpc = "ainvoke"
    /\ \/ \E answer_text \in Completions :
             /\ completion' = Some(answer_text)
             /\ result' = Some(IF impl = "solver"
                               THEN action_result(params[1], answer_text)
                               ELSE main_action_result(params[1], answer_text))
             /\ tpc' = "returned"
             /\ UNCHANGED <<invokes, tool_exc>>
       \/ /\ \E e \in AwaitRaises : on_ainvoke_exception(e)
          /\ UNCHANGED <<completion, result>>
    /\ UNCHANGED <<impl, params, screenshot_b64, shots, shot_failed, messages>>
    /\ UNCHANGED <<runvars, fnvars>>

NextTool ==
    \/ solve_question
    \/ main_solve_question
    \/ take_screenshot
    \/ ainvoke

SpecTool == InitTool /\ [][NextTool]_vars

----------------------------------------------------------------------------
(* Properties of the orchestrator run (checked under Spec)                  *)

\* C1: once run has created the browser session, kill() is called on it
\* exactly once by the time run exits -- after a normal return, after a
\* KeyboardInterrupt or cancellation, and after an error in constructing or
\* running the agent -- and never more often than a session was created.
C1_KillExactlyOnce ==
    /\ kills <= created
    /\ (pc = "exited" /\ created > 0) => kills = 1

\* C1 witness: constructing the agent raised an error, run has exited, and
\* the session was killed once.
C1_Witness ==
    /\ pc = "exited"
    /\ created = 1
    /\ agent = "None"
    /\ thrown.type = "Exception"
    /\ kills = 1

\* A credential of an active provider is missing: for run, the key of the
\* operator's or the solver's provider; for main, the key of MODEL_PROVIDER.
MissingCredential ==
    IF entry = "app"
    THEN \E p \in {b_provider, s_provider} : p \in FACTORY_MAP /\ p \notin env_keys
    ELSE b_provider \in MAIN_PROVIDERS /\ b_provider \notin env_keys

\* C5: if the credential of the operator's or the solver's provider is
\* missing, run never gets past configuration validation: no model client is
\* built, the solver tool is not registered, no browser session is created,
\* no agent is constructed, and the only way run ends is the exit of the
\* validation step.
C5_MissingCredentialExitsFirst ==
    MissingCredential =>
        /\ llms = <<>>
        /\ tools = {}
        /\ created = 0
        /\ agent = "None"
        /\ pc \in {"validate", "exited"}
        /\ pc = "exited" => exit = "SystemExit"

\* C5 witness: only the solver's credential is missing and run has exited in
\* validation.
C5_Witness ==
    /\ entry = "app"
    /\ b_provider = "openai" /\ "openai" \in env_keys
    /\ s_provider = "anthropic" /\ "anthropic" \notin env_keys
    /\ pc = "exited"
    /\ exit = "SystemExit"

\* C6 (as claimed): when the provider of either role is unsupported, no model
\* client is ever constructed for either role.
C6_NoClientBeforeProviderError ==
    (b_provider \notin FACTORY_MAP \/ s_provider \notin FACTORY_MAP) => llms = <<>>

\* C7: an error other than user cancellation raised while constructing or
\* running the agent leaves run as that same error, and only after the
\* browser session has been killed and forgotten.
C7_ErrorReraisedAfterCleanup ==
    (pc = "exited" /\ thrown.type \notin {"none", "KeyboardInterrupt"}) =>
        /\ exit = thrown.type
        /\ kills = 1
        /\ entry = "app" => browser_session = "None"

\* C7 witness: agent.run() raised a connection error; run printed the Chrome
\* help, cleaned up and re-raised.
C7_Witness ==
    /\ pc = "exited"
    /\ agent = "Agent"
    /\ thrown = [type |-> "Exception", msg |-> "connect"]
    /\ diag = "chrome_help"
    /\ exit = "Exception"
    /\ kills = 1

----------------------------------------------------------------------------
(* Properties of one solve_question invocation (checked under SpecTool)     *)

\* C2 (as claimed): an invocation whose question text is empty takes no
\* screenshot, does not call the solver model and returns no answer result.
C2_EmptyQuestionRejected ==
    (tpc # "idle" /\ params[1].question = <<>>) =>
        /\ shots = 0
        /\ invokes = 0
        /\ result = None

\* C3: after a failed screenshot acquisition the solver is called, with a
\* two-message request whose user message is plain text with no image part;
\* the only exception that can leave the tool is one from the solver call,
\* and a completion from the solver gives a normal result.
C3_ScreenshotFailureDegrades ==
    shot_failed =>
        /\ screenshot_b64 = None
        /\ invokes = 1
        /\ Len(messages) = 2
        /\ messages[2].role = "user"
        /\ messages[2].content.type = "str"
        /\ messages[2].content.parts = <<>>
        /\ tool_exc # None => tool_exc[1].at = "ainvoke"
        /\ completion # None => (tpc = "returned" /\ result # None /\ tool_exc = None)

\* C3 witness: the screenshot failed and the tool returned a result.
C3_Witness ==
    /\ shot_failed
    /\ params[1].include_screenshot
    /\ shots = 1
    /\ tpc = "returned"
    /\ result # None

\* C4: an invocation calls the solver model at most once, exactly once if
\* it returns a result; a failure of that call leaves the tool as an
\* exception, after that one call, with no result.
C4_SolverCalledOnce ==
    /\ invokes <= 1
    /\ result # None => invokes = 1
    /\ tpc = "raised" => (result = None /\ tool_exc # None)
    /\ (tool_exc # None /\ tool_exc[1].at = "ainvoke") =>
           (invokes = 1 /\ tpc = "raised" /\ completion = None)

\* C4 witness: the solver call failed and the failure left the tool.
C4_Witness ==
    /\ tpc = "raised"
    /\ tool_exc = Some([type |-> "Exception", at |-> "ainvoke"])
    /\ invokes = 1
    /\ result = None

\* The text 'ANSWER: <answer>' followed, when the truncated reasoning is
\* non-empty, by a blank line and 'REASONING: <reasoning>', for the answer
\* and reasoning parsed from the completion of the current invocation.
AnswerBlock ==
    LET parsed == parse_solver_response(completion[1])
        reasoning == truncate_reasoning(parsed[2], params[1].question_type)
    IN  IF reasoning # <<>>
        THEN ANSWER_HEAD \o parsed[1] \o REASONING_HEAD \o reasoning
        ELSE ANSWER_HEAD \o parsed[1]

\* The same text for a reply Reply(Text(na), Text(nr)), written out without
\* the parser: the answer in full, the reasoning cut at the ceiling c.
ReplyBlock(na, nr, c) ==
    ANSWER_HEAD \o Text(na) \o
        (IF nr = 0 THEN <<>>
         ELSE REASONING_HEAD \o
              (IF nr > c THEN Text(c) \o TRUNC_MARK ELSE Text(nr)))

\* C8 (as claimed): the text returned to the operator is exactly the
\* ANSWER/REASONING block, with nothing before or after it.
C8_OutputIsAnswerBlock ==
    tpc = "returned" => result[1].extracted_content = AnswerBlock

\* C8 (amended): the text returned to the operator is the fixed header line
\* followed by exactly the ANSWER/REASONING block; the example completion
\* for a choice question comes back unchanged after the header.
C8_OutputIsHeaderThenAnswerBlock ==
    tpc = "returned" =>
        /\ result[1].extracted_content = EXTRACTED_HEAD \o AnswerBlock
        /\ (completion[1] = EXAMPLE_COMPLETION /\ params[1].question_type = "choice") =>
               result[1].extracted_content = EXTRACTED_HEAD \o EXAMPLE_COMPLETION
        /\ \A na \in AnswerLens, nr \in ReasonLens :
               (/\ Len(completion[1]) = Len(Reply(<<>>, <<>>)) + na + nr
                /\ completion[1] = Reply(Text(na), Text(nr))) =>
                   result[1].extracted_content =
                       EXTRACTED_HEAD \o
                       ReplyBlock(na, nr, limits_get(params[1].question_type))

\* C8 witness: the example of the claim.
C8_Witness ==
    /\ tpc = "returned"
    /\ impl = "solver"
    /\ params[1].question = Q_EXAMPLE
    /\ params[1].question_type = "choice"
    /\ completion[1] = EXAMPLE_COMPLETION
    /\ result[1].extracted_content = EXTRACTED_HEAD \o EXAMPLE_COMPLETION

\* C9: for every question type and answer length, the tool output and the
\* memory line carry the parsed answer in full: the output starts with the
\* header, 'ANSWER: ' and the whole answer, and the memory line ends with
\* the whole answer; an answer longer than the type's ceiling is neither cut
\* nor marked.
C9_AnswerNeverTruncated ==
    tpc = "returned" =>
        LET out == result[1].extracted_content
            mem == result[1].long_term_memory
            ans == parse_solver_response(completion[1])[1]
            lead == EXTRACTED_HEAD \o ANSWER_HEAD
            memlead == MEMORY_HEAD \o Take(params[1].question, 100) \o MEMORY_MID
        IN  /\ Len(out) >= Len(lead) + Len(ans)
            /\ SubSeq(out, 1, Len(lead) + Len(ans)) = lead \o ans
            /\ mem = memlead \o ans
            /\ \A na \in AnswerLens, nr \in ReasonLens :
                   (/\ Len(completion[1]) = Len(Reply(<<>>, <<>>)) + na + nr
                    /\ completion[1] = Reply(Text(na), Text(nr))) =>
                       /\ SubSeq(out, 1, Len(lead) + na) = lead \o Text(na)
                       /\ Len(out) > Len(lead) + na =>
                              out[Len(lead) + na + 1] = "u000A"
                       /\ mem = memlead \o Text(na)

\* C9 witness: a judge question (ceiling 150) answered with an answer longer
\* than every ceiling and a reasoning that is truncated.
C9_Witness ==
    /\ tpc = "returned"
    /\ impl = "solver"
    /\ params[1].question_type = "judge"
    /\ Len(completion[1]) =
           Len(Reply(<<>>, <<>>)) + limits["essay"] + limits["judge"] + 2 * Margin
    /\ completion[1] = Reply(Text(limits["essay"] + Margin),
                             Text(limits["judge"] + Margin))
    /\ Len(result[1].long_term_memory) >= limits["essay"] + Margin

----------------------------------------------------------------------------
(* Properties of truncate_reasoning (checked under SpecTrunc)               *)

\* C10: with the ceiling C of the question type (choice 200, judge 150,
\* fill 300, essay 1500, auto and anything else 500), a reasoning longer
\* than C comes back as its first C characters followed by the truncation
\* marker, C + len(marker) characters in all; a reasoning of at most C
\* characters comes back unchanged.
C10_TruncateAtCeiling ==
    fn # "none" =>
        LET R == fn_args[1].reasoning
            T == fn_args[1].question_type
            C == CASE T = "choice" -> 200
                   [] T = "judge"  -> 150
                   [] T = "fill"   -> 300
                   [] T = "essay"  -> 1500
                   [] OTHER        -> 500
            out == fn_ret[1]
        IN  IF Len(R) > C
            THEN /\ out = SubSeq(R, 1, C) \o TRUNC_MARK
                 /\ Len(out) = C + Len(TRUNC_MARK)
            ELSE out = R

\* C10 witness: an essay reasoning one character over the ceiling was cut.
C10_Witness ==
    /\ fn = "truncate_reasoning"
    /\ fn_args[1].question_type = "essay"
    /\ Len(fn_args[1].reasoning) = 1501
    /\ Len(fn_ret[1]) = 1510

----------------------------------------------------------------------------
(* Properties of parse_solver_response (checked under SpecParse)            *)

\* C11 (as claimed): the parser returns an answer and a reasoning for every
\* text, and for a text with neither marker the answer is the text with
\* leading and trailing whitespace removed and the reasoning is empty.
C11_NoMarkerAnswerTrimmed ==
    fn = "parse_solver_response" =>
        /\ Len(fn_ret[1]) = 2
        /\ (/\ ~contains(fn_args[1].answer_text, ANSWER_MARK)
            /\ ~contains(fn_args[1].answer_text, REASONING_MARK)) =>
               /\ fn_ret[1][1] = strip(fn_args[1].answer_text)
               /\ fn_ret[1][2] = <<>>

\* C11 (amended): the parser returns an answer and a reasoning for every
\* text, and for a text with neither marker the answer is the text itself,
\* whitespace included, and the reasoning is empty.
C11_NoMarkerAnswerIsRaw ==
    fn = "parse_solver_response" =>
        /\ Len(fn_ret[1]) = 2
        /\ (/\ ~contains(fn_args[1].answer_text, ANSWER_MARK)
            /\ ~contains(fn_args[1].answer_text, REASONING_MARK)) =>
               /\ fn_ret[1][1] = fn_args[1].answer_text
               /\ fn_ret[1][2] = <<>>

\* C11 witness: a marker-free text with whitespace at both ends was parsed
\* and came back with the whitespace.
C11_Witness ==
    /\ fn = "parse_solver_response"
    /\ fn_args[1].answer_text = <<" ", "x", " ">>
    /\ fn_ret[1] = << <<" ", "x", " ">>, <<>> >>

\* C12: for a text that does not contain 'ANSWER:', the answer is the whole
\* text and the reasoning is empty, also when the text contains 'REASONING:'.
C12_NoAnswerMarkerWholeText ==
    (fn = "parse_solver_response"
        /\ \A i \in 1..(Len(fn_args[1].answer_text) - Len(ANSWER_MARK) + 1) :
               SubSeq(fn_args[1].answer_text, i, i + Len(ANSWER_MARK) - 1)
                   # ANSWER_MARK) =>
        /\ fn_ret[1][1] = fn_args[1].answer_text
        /\ fn_ret[1][2] = <<>>

\* C12 witness: a text with 'REASONING:' but no 'ANSWER:' was parsed.
C12_Witness ==
    /\ fn = "parse_solver_response"
    /\ fn_args[1].answer_text = <<"x">> \o REASONING_MARK \o <<"y">>
    /\ fn_ret[1][1] = <<"x">> \o REASONING_MARK \o <<"y">>
    /\ fn_ret[1][2] = <<>>

\* C13: for a text containing 'ANSWER:', with the region being the text after
\* its first occurrence: if the region contains 'REASONING:', the answer is
\* the trimmed text before its first occurrence in the region and the
\* reasoning the trimmed text after it (later markers included); otherwise
\* the answer is the trimmed region and the reasoning is empty.  The text
\* before the first 'ANSWER:' has no part in either.
C13_FirstMarkersSplit ==
    fn = "parse_solver_response" =>
        LET raw == fn_args[1].answer_text
            n == Len(raw)
            am == Len(ANSWER_MARK)
            rm == Len(REASONING_MARK)
        IN  \A i \in 1..n :
              (/\ i + am - 1 <= n
               /\ SubSeq(raw, i, i + am - 1) = ANSWER_MARK
               /\ \A k \in 1..(i - 1) :
                      ~(k + am - 1 <= n /\ SubSeq(raw, k, k + am - 1) = ANSWER_MARK)) =>
                LET region == SubSeq(raw, i + am, n)
                    m == Len(region)
                    starts == { j \in 1..m :
                                  /\ j + rm - 1 <= m
                                  /\ SubSeq(region, j, j + rm - 1) = REASONING_MARK }
                IN  /\ starts = {} =>
                        /\ fn_ret[1][1] = strip(region)
                        /\ fn_ret[1][2] = <<>>
                    /\ \A j \in starts :
                        (\A k \in starts : j <= k) =>
                            /\ fn_ret[1][1] = strip(SubSeq(region, 1, j - 1))
                            /\ fn_ret[1][2] = strip(SubSeq(region, j + rm, m))

\* C13 witness: text, 'ANSWER:', an answer, 'REASONING:' and a reasoning
\* that itself holds 'ANSWER:': the leading text is dropped and the second
\* 'ANSWER:' stays in the reasoning.
C13_Witness ==
    /\ fn = "parse_solver_response"
    /\ fn_args[1].answer_text =
           <<"y">> \o ANSWER_MARK \o <<"x">> \o REASONING_MARK \o ANSWER_MARK
    /\ fn_ret[1] = << <<"x">>, ANSWER_MARK >>

----------------------------------------------------------------------------
(* Properties of the solver request (checked under SpecTool)                *)

\* The text of the user message handed to the solver: the message content
\* if it is plain text, the first part if it is multi-part.
UserText ==
    IF messages[2].content.type = "str"
    THEN messages[2].content.text
    ELSE messages[2].content.parts[1].text

\* s ends with suffix.
EndsWith(s, suffix) ==
    /\ Len(s) >= Len(suffix)
    /\ SubSeq(s, Len(s) - Len(suffix) + 1, Len(s)) = suffix

\* C14: in the user text, a non-empty answer_format_hint gives one
\* format-hint line, the last line, carrying exactly that hint, and the
\* fixed decimal-rounding line is absent; an empty hint gives the fixed line
\* for a fill question and no format-hint line for any other type.
C14_FormatHintPrecedence ==
    invokes >= 1 =>
        LET hint == params[1].answer_format_hint
            lines == Occurrences(UserText, FORMAT_HINT_HEAD)
        IN  IF hint # <<>>
            THEN /\ EndsWith(UserText, FORMAT_HINT_HEAD \o hint)
                 /\ Cardinality(lines) = 1
                 /\ Occurrences(UserText, FORMAT_DEFAULT) = {}
            ELSE IF params[1].question_type = "fill"
            THEN /\ EndsWith(UserText, FORMAT_HINT_HEAD \o FORMAT_DEFAULT)
                 /\ Cardinality(lines) = 1
            ELSE lines = {}

\* C14 witness: a fill question with an explicit hint was sent to the solver
\* with that hint as its last line.
C14_Witness ==
    /\ invokes = 1
    /\ params[1].question_type = "fill"
    /\ params[1].answer_format_hint = HINT_EXAMPLE
    /\ EndsWith(UserText, FORMAT_HINT_HEAD \o HINT_EXAMPLE)

\* C16: every request handed to the solver is one system message with the
\* solver persona followed by one user message; when a screenshot was
\* acquired (asked for, and take_screenshot did not fail) the user message
\* has three parts -- the question text, the fixed image instruction, the
\* image tagged high-detail -- and otherwise it is plain text.
C16_RequestShape ==
    invokes >= 1 =>
        /\ Len(messages) = 2
        /\ messages[1].role = "system"
        /\ messages[1].content.type = "str"
        /\ messages[1].content.text = SOLVER_SYSTEM_PROMPT
        /\ messages[2].role = "user"
        /\ IF params[1].include_screenshot /\ ~shot_failed
           THEN /\ messages[2].content.type = "list"
                /\ Len(messages[2].content.parts) = 3
                /\ messages[2].content.parts[1].type = "text"
                /\ SubSeq(messages[2].content.parts[1].text, 1,
                          Len(USER_HEAD) + Len(params[1].question))
                       = USER_HEAD \o params[1].question
                /\ messages[2].content.parts[2].type = "text"
                /\ messages[2].content.parts[2].text = IMAGE_INSTRUCTION
                /\ messages[2].content.parts[3].type = "image_url"
                /\ messages[2].content.parts[3].detail = "high"
                /\ messages[2].content.parts[3].url # DATA_URL_HEAD
           ELSE /\ messages[2].content.type = "str"
                /\ messages[2].content.parts = <<>>
                /\ SubSeq(messages[2].content.text, 1,
                          Len(USER_HEAD) + Len(params[1].question))
                       = USER_HEAD \o params[1].question

\* C16 witness: a four-byte screenshot was acquired and sent as the third
\* part of the user message.
C16_Witness ==
    /\ invokes = 1
    /\ screenshot_b64 = Some(<<"i", "V", "B", "O", "R", "w", "=", "=">>)
    /\ messages[2].content.type = "list"
    /\ messages[2].content.parts[3].url =
           DATA_URL_HEAD \o <<"i", "V", "B", "O", "R", "w", "=", "=">>

\* C17: an invocation awaits at most twice, in a fixed order: at most one
\* screenshot acquisition, only when include_screenshot is set, which is
\* over before the solver call starts; once the solver has been called or
\* the screenshot has failed, no further screenshot is attempted.
C17_SuspensionOrder ==
    /\ [](/\ shots <= 1
          /\ shots + invokes <= 2
          /\ shots = 1 => params[1].include_screenshot
          /\ tpc = "take_screenshot" => (shots = 1 /\ invokes = 0)
          /\ shot_failed => shots = 1)
    /\ [][(invokes >= 1 \/ shot_failed) => shots' = shots]_vars
    /\ [][invokes' > invokes => (tpc # "take_screenshot")']_vars

\* C17 witness: an invocation with a screenshot has made both awaits and
\* returned.
C17_Witness ==
    /\ tpc = "returned"
    /\ params[1].include_screenshot
    /\ shots = 1
    /\ invokes = 1

\* C18 (as claimed): the user text has a type-hint line exactly when
\* question_type is not 'auto', and the line always carries a non-empty
\* clarification, also for a question_type outside choice/fill/judge/essay.
C18_TypeHintCarriesClarification ==
    invokes >= 1 =>
        LET lines == Occurrences(UserText, TYPE_HINT_HEAD)
        IN  /\ (lines # {}) <=> (params[1].question_type # "auto")
            /\ \A i \in lines :
                   /\ i + Len(TYPE_HINT_HEAD) <= Len(UserText)
                   /\ UserText[i + Len(TYPE_HINT_HEAD)] # "u000A"

----------------------------------------------------------------------------
(* Properties of the resolved configuration (checked under SpecConfig)      *)

\* The solver's provider as the environment gives it: SOLVER_PROVIDER, else
\* DEFAULT_PROVIDER, else openai; in any spelling.
SolverIsOpenAI ==
    LET chosen == IF fn_args[1]["SOLVER_PROVIDER"] # None
                  THEN fn_args[1]["SOLVER_PROVIDER"][1]
                  ELSE IF fn_args[1]["DEFAULT_PROVIDER"] # None
                  THEN fn_args[1]["DEFAULT_PROVIDER"][1]
                  ELSE OPENAI
    IN  chosen \in {OPENAI, OPENAI_MIXED}

\* C15 (as claimed): for every environment over the supported providers the
\* solver's configuration has an output-token ceiling and it is strictly
\* larger than the operator's (no ceiling counting as none set).
C15_SolverCeilingLarger ==
    fn # "none" =>
        LET s == fn_ret[1].config.solver_llm.max_completion_tokens
            b == fn_ret[1].config.browser_llm.max_completion_tokens
        IN  /\ s # None
            /\ b # None => s[1] > b[1]

\* C15 (amended): the operator's configuration and client never set an
\* output-token ceiling; the solver's configuration and client set one,
\* 16384, exactly when the solver's provider is openai.
C15_CeilingOnlyForOpenAISolver ==
    /\ fn # "none" =>
           /\ fn_ret[1].config.browser_llm.max_completion_tokens = None
           /\ fn_ret[1].config.solver_llm.max_completion_tokens =
                  IF SolverIsOpenAI THEN Some(16384) ELSE None
    /\ fn = "create_llm_pair" =>
           /\ fn_ret[1].clients[1].max_completion_tokens = None
           /\ fn_ret[1].clients[2].max_completion_tokens =
                  IF SolverIsOpenAI THEN Some(16384) ELSE None

\* C15 witness: with DEFAULT_PROVIDER=anthropic and SOLVER_PROVIDER=OpenAI
\* the solver client was built with the ceiling and the operator's without.
C15_Witness ==
    /\ fn = "create_llm_pair"
    /\ fn_args[1]["DEFAULT_PROVIDER"] = Some(ANTHROPIC)
    /\ fn_args[1]["BROWSER_PROVIDER"] = None
    /\ fn_args[1]["SOLVER_PROVIDER"] = Some(OPENAI_MIXED)
    /\ fn_ret[1].clients[1] = [cls |-> "ChatAnthropic", max_completion_tokens |-> None]
    /\ fn_ret[1].clients[2] = [cls |-> "ChatOpenAI", max_completion_tokens |-> Some(16384)]

====
